---- MODULE Spec2Model ----
(***************************************************************************)
(* Model of the batch uploader of the log ingestion pipeline:              *)
(* BulkInsertTransform (src/src/scripts/bulk-insert.ts) driven by the      *)
(* stream pipeline of generateLogs (src/src/scripts/generate-logs.ts).     *)
(*                                                                         *)
(* Records are the integers 1..total in submission order.  An upload task  *)
(* is one call of sendBatch; its id is its position in the sequence tasks  *)
(* (currentBatchIndex + 1).  The steps of the model are the pieces of code *)
(* that run without suspension on the event loop: the synchronous part of  *)
(* _transform and _flush up to their await, their continuations, the       *)
(* continuation of sendBatch after the bulk call settles, and the .catch   *)
(* and .finally handlers that scheduleFlush chains on the task's promise.  *)
(* The store is free to answer or fail any request at any moment, so the   *)
(* steps of different tasks interleave in every order.                     *)
(*                                                                         *)
(* The two stages upstream of the uploader have their own specifications:  *)
(* SourceSpec for LogGeneratorStream (generate-logs.ts), whose records are *)
(* the indices handed to the generator function, and CollectorSpec for     *)
(* LogMetricsCollector (transforms/log-metrics-collector.ts), whose        *)
(* records carry a response time and the shape that decides whether the    *)
(* aggregation of _transform throws.                                       *)
(*                                                                         *)
(* Pure parts of the uploader and its collaborators are specified apart,   *)
(* each over a variable of its own: SerializeSpec for serializeNdjsonBatch *)
(* (bulk-insert.ts), whose strings are sequences of characters, and       *)
(* TrackerSpec for ProgressTracker (progress-tracker.ts), whose clock is   *)
(* the value of Date.now() in milliseconds, CorrelateSpec for the part of  *)
(* sendBatch that reads a bulk response, and LoggerSpec for ErrorLogger    *)
(* (utils/error-logger.ts), whose entries are numbered in logging order.   *)
(***************************************************************************)
EXTENDS Integers, Sequences, FiniteSets, TLC

\* ---------------------------------------------------------------- bounds
MaxRecords == 3
MaxBatchSize == 2
MaxConcurrency == 2
MaxItems == 1
MaxDuration == 1
MaxTotalLogs == 201
MaxResponseTime == 3
MaxMessageLength == 1
MaxEvents == 3
MaxResponseItems == 3
MaxCalls == 5

\* ------------------------------------------------------------ value sets
NoError == 0
UpstreamError == -1

ItemKinds == {"ok", "mapper_parsing_exception", "version_conflict"}

BoundedSeqs(S, n) == UNION {[1..k -> S] : k \in 0..n}

Responses == [errors : BOOLEAN, items : BoundedSeqs(ItemKinds, MaxItems)]

NotWaiting == [state |-> "none", error |-> NoError]
Pending == [state |-> "pending", error |-> NoError]
Fulfilled == [state |-> "fulfilled", error |-> NoError]
Rejected(e) == [state |-> "rejected", error |-> e]

Max(a, b) == IF a >= b THEN a ELSE b

\* ErrorLogger: the categories of logInsertionError, logStreamError,
\* logConnectionError and logSerializationError
Categories == {"insertion", "stream", "connection", "serialization"}

VARIABLES
    options,          \* [batchSize, concurrency]: concurrency is <<>> when absent, <<c>> when given
    total,            \* number of records the source will submit
    written,          \* number of records for which _transform has been invoked
    buffer,           \* this.buffer
    pendingFlushes,   \* this.pendingFlushes (task ids)
    flushError,       \* this.flushError
    batchIndex,       \* this.batchIndex
    metrics,          \* this.metrics
    totalInserted,    \* this.totalInserted
    tasks,            \* one entry per sendBatch call
    bulkCalls,        \* batches handed to opensearchClient.bulk, in call order
    pc,               \* position of the writable side of the stream
    awaited,          \* task promises the current Promise.race / Promise.all observes
    waitResult,       \* settlement of that race / all: [state, error]
    outcome,          \* completion result of the pipeline
    drainReported,    \* TRUE once the callback of _flush has been invoked
    emitted,          \* ProgressEvents delivered on the readable side, in order
    errorLog,         \* number of entries handed to the error sink, per category
    observed,         \* task promises a Promise.race / Promise.all has
                      \* subscribed to, less those that were fulfilled
    main,             \* position of the main program (runIngestion)
    persisted         \* number of entries flush() has written to the log file

VARIABLES
    generatorStream,  \* the LogGeneratorStream: its field `generated` and
                      \*   reading    - _read was called, no chunk pushed since
                      \*   immediate  - pending setImmediate callback:
                      \*                <<>> or <<chunkSize>>
                      \*   calls      - indices the generator function was
                      \*                called with, in order
                      \*   produced   - records delivered downstream, in order
                      \*   endSignals - number of push(null) calls
                      \*   state      - "open", "destroyed" or "crashed"
    metricsCollector  \* the LogMetricsCollector: its fields `total` and
                      \* `responseTime` and
                      \*   received   - records written to it, in order
                      \*   forwarded  - records it pushed downstream, in order
                      \*   state      - "open" or "errored"

VARIABLES
    ndjson            \* one call of serializeNdjsonBatch:
                      \*   indexName - this.options.indexName
                      \*   batch     - the argument, a sequence of documents
                      \*   result    - "none" before the call, then "returned"
                      \*               or "threw"
                      \*   body      - the string returned

VARIABLES
    progressTracker   \* the ProgressTracker: its fields `startTime` and
                      \* `lastUpdate` and
                      \*   clock     - the value of Date.now()
                      \*   consumed  - events whose callback was invoked
                      \*   pushed    - chunks pushed to the readable side
                      \*   lines     - status lines written, each with the
                      \*               time and the total it reports

VARIABLES
    correlation       \* one bulk response read by sendBatch:
                      \*   batch     - the records of the batch
                      \*   response  - response.body: `errors` and `items`,
                      \*               an item being "ok" or its error type
                      \*   result    - "none" before the response is read,
                      \*               then "counted"
                      \*   successfulDocuments, failedDocuments - the
                      \*               counts sendBatch adds to the metrics
                      \*   entries   - the insertion entries it logs

VARIABLES
    errorLogger       \* the ErrorLogger: its field `errors` and
                      \*   file      - the entries of the log file
                      \*   corrupt   - the file is not a JSON document
                      \*   logged    - number of entries logged; the
                      \*               entries are numbered 1, 2, ...
                      \*   durable   - number of entries logged before the
                      \*               last flush that wrote the file
                      \*   calls     - calls of log and flush so far

vars == <<options, total, written, buffer, pendingFlushes, flushError,
          batchIndex, metrics, totalInserted, tasks, bulkCalls, pc, awaited,
          waitResult, outcome, drainReported, emitted, errorLog, observed,
          main, persisted, generatorStream, metricsCollector, ndjson,
          progressTracker, correlation, errorLogger>>

\* the parts that have a specification of their own
separate == <<ndjson, progressTracker, correlation, errorLogger>>

\* the stages upstream of the uploader
upstream == <<generatorStream, metricsCollector>>

config == <<options, total>>

\* the main program and the log file of its error sink
program == <<main, persisted>>

\* constructor: this.concurrency = Math.max(1, options.concurrency ?? 1)
concurrency ==
    Max(1, IF options.concurrency = <<>> THEN 1 ELSE options.concurrency[1])

TaskIds == 1..Len(tasks)

Unsettled == {t \in TaskIds : tasks[t].state \notin {"done", "rejected"}}

\* Number.POSITIVE_INFINITY and Number.NEGATIVE_INFINITY, as values above
\* and below every response time
POSITIVE_INFINITY == MaxResponseTime + 1

NEGATIVE_INFINITY == -1

\* the fields of a new BulkInsertTransform
UploaderConstructed ==
    /\ written = 0
    /\ buffer = <<>>
    /\ pendingFlushes = {}
    /\ flushError = NoError
    /\ batchIndex = 0
    /\ metrics = [batches |-> 0, totalInserted |-> 0, failedDocuments |-> 0,
                  totalDurationMs |-> 0, maxBatchDurationMs |-> 0]
    /\ totalInserted = 0
    /\ tasks = <<>>
    /\ bulkCalls = <<>>
    /\ pc = "idle"
    /\ awaited = {}
    /\ waitResult = NotWaiting
    /\ outcome = "running"
    /\ drainReported = FALSE
    /\ emitted = <<>>
    /\ errorLog = [category \in Categories |-> 0]
    /\ observed = {}
    /\ main = "awaitPipeline"
    /\ persisted = 0

\* a new LogGeneratorStream
SourceConstructed ==
    generatorStream = [generated |-> 0, reading |-> FALSE, immediate |-> <<>>,
                       calls |-> <<>>, produced |-> <<>>, endSignals |-> 0,
                       state |-> "open"]

\* a new LogMetricsCollector
CollectorConstructed ==
    metricsCollector = [total |-> 0,
                        responseTime |-> [values |-> <<>>,
                                          min |-> POSITIVE_INFINITY,
                                          max |-> NEGATIVE_INFINITY,
                                          total |-> 0],
                        received |-> <<>>,
                        forwarded |-> <<>>,
                        state |-> "open"]

\* serializeNdjsonBatch has not been called
NoCall ==
    [indexName |-> <<>>, batch |-> <<>>, result |-> "none", body |-> <<>>]

\* new ProgressTracker(expectedTotal), at time 0 of the clock
TrackerConstructed ==
    progressTracker = [startTime |-> 0, lastUpdate |-> 0, clock |-> 0,
                       consumed |-> 0, pushed |-> 0, lines |-> <<>>]

\* the parts specified apart, before anything was done with them
\* sendBatch has no response to read
NoResponse ==
    [batch |-> <<>>, response |-> [errors |-> FALSE, items |-> <<>>],
     result |-> "none", successfulDocuments |-> 0, failedDocuments |-> 0,
     entries |-> <<>>]

\* new ErrorLogger(logDir, filename): no entry, no file
LoggerConstructed ==
    errorLogger = [errors |-> <<>>, file |-> <<>>, corrupt |-> FALSE,
                   logged |-> 0, durable |-> 0, calls |-> 0]

SeparateIdle ==
    /\ ndjson = NoCall
    /\ TrackerConstructed
    /\ correlation = NoResponse
    /\ LoggerConstructed

Init ==
    /\ options \in [batchSize : 1..MaxBatchSize,
                    concurrency : {<<>>} \cup {<<c>> : c \in 0..MaxConcurrency}]
    /\ total \in 0..MaxRecords
    /\ UploaderConstructed
    /\ SourceConstructed
    /\ CollectorConstructed
    /\ SeparateIdle

\* ------------------------------------------------- decisions of the code
\* variant: a batch is cut only when the buffer exceeds batchSize
BatchIsFull_Exceeds(buf) == Len(buf) > options.batchSize

\* _transform: if (this.buffer.length >= this.options.batchSize)
BatchIsFull(buf) == Len(buf) >= options.batchSize

\* variant: the slot test written with <= instead of <
SlotAvailable_OffByOne(pending) == Cardinality(pending) <= concurrency

\* waitForAvailableSlot: if (this.pendingFlushes.size < this.concurrency) return
SlotAvailable(pending) == Cardinality(pending) < concurrency

\* sendBatch: errors = response.body.errors ? items.filter(item => item.index?.error) : []
ErrorItems(response) ==
    IF response.errors
    THEN SelectSeq(response.items, LAMBDA item : item # "ok")
    ELSE <<>>

\* the error lists sendBatch can extract from a bulk response
ErrorLists == {ErrorItems(response) : response \in Responses}

\* variant: the whole batch is credited as inserted
SuccessfulDocuments_WholeBatch(batch, errors) == Len(batch)

\* sendBatch: successfulDocuments = batch.length - errors.length
SuccessfulDocuments(batch, errors) == Len(batch) - Len(errors)

\* variant: the failure counter is assigned instead of accumulated
FailedDocuments_Assigned(failedDocuments, errors) ==
    IF Len(errors) > 0 THEN Len(errors) ELSE failedDocuments

\* sendBatch: if (errors.length > 0) this.metrics.failedDocuments += errors.length
FailedDocuments(failedDocuments, errors) ==
    IF Len(errors) > 0 THEN failedDocuments + Len(errors) ELSE failedDocuments

\* variant: the batch counter is taken from the index of the batch
Batches_ByIndex(batches, t) == t

\* sendBatch: this.metrics.batches += 1
Batches(batches, t) == batches + 1

\* variant: a failure is logged twice
Logged_Twice(log, category, n) == [log EXCEPT ![category] = @ + 2 * n]

\* errorLogger.logXxxError(...), called n times for one category
Logged(log, category, n) == [log EXCEPT ![category] = @ + n]

\* sendBatch: { inserted: successfulDocuments, total: this.totalInserted }
ProgressEvent(batch, successfulDocuments, cumulative) ==
    [inserted |-> successfulDocuments, total |-> cumulative]

\* this.push(event): the readable side delivers the event to its consumer
\* unless the stream has been destroyed, in which case the chunk is dropped
Push(event) ==
    IF pc \in {"destroyed", "closed"} THEN emitted ELSE Append(emitted, event)

\* --------------------------------------------------------- scheduleFlush
\* The synchronous part of sendBatch runs inside scheduleFlush: the batch
\* index is taken, the batch is serialized and, unless that throws, the bulk
\* request is issued.  The task's promise then joins pendingFlushes.
\* variant: the entry names the last record of the batch
SerializationContext_Last(batch) == <<batch[Len(batch)]>>

\* sendBatch, catch of the serialization: logSerializationError(..., {
\* document: batch[0] })
SerializationContext(batch) == <<batch[1]>>

\* `document` is the document named by the serialization entry logged for
\* the task, <<>> when its batch was serialized.
NewTask(batch, serializable) ==
    [batch |-> batch,
     state |-> IF serializable THEN "inflight" ELSE "thrown",
     sent |-> serializable,
     failed |-> 0,
     document |-> IF serializable THEN <<>> ELSE SerializationContext(batch)]

\* variant: the guard `batch.length === 0` written as `batch.length <= 1`
ScheduleFlush_SkipsSingleton(batch, serializable) ==
    IF Len(batch) <= 1
    THEN UNCHANGED <<tasks, batchIndex, bulkCalls, pendingFlushes, errorLog>>
    ELSE /\ batchIndex' = batchIndex + 1
         /\ tasks' = Append(tasks, NewTask(batch, serializable))
         /\ bulkCalls' = IF serializable THEN Append(bulkCalls, batch)
                         ELSE bulkCalls
         /\ errorLog' = IF serializable THEN errorLog
                         ELSE Logged(errorLog, "serialization", 1)
         /\ pendingFlushes' = pendingFlushes \cup {Len(tasks) + 1}

ScheduleFlush(batch, serializable) ==
    IF Len(batch) = 0
    THEN UNCHANGED <<tasks, batchIndex, bulkCalls, pendingFlushes, errorLog>>
    ELSE /\ batchIndex' = batchIndex + 1
         /\ tasks' = Append(tasks, NewTask(batch, serializable))
         /\ bulkCalls' = IF serializable THEN Append(bulkCalls, batch)
                         ELSE bulkCalls
         /\ errorLog' = IF serializable THEN errorLog
                         ELSE Logged(errorLog, "serialization", 1)
         /\ pendingFlushes' = pendingFlushes \cup {Len(tasks) + 1}

\* ErrorLogger: the number of entries logged so far
TotalLogged(log) ==
    log["insertion"] + log["stream"] + log["connection"]
        + log["serialization"]

\* The pipeline promise of generateLogs rejects, `log` being the error log
\* at that moment.  The catch block of generateLogs logs a stream error,
\* flushes the error sink and rethrows; the catch block of runIngestion
\* flushes again and awaits closeClient().
PipelineRejects(log) ==
    /\ errorLog' = Logged(log, "stream", 1)
    /\ persisted' = TotalLogged(errorLog')
    /\ main' = "closing"

\* _destroy(error, callback)
DestroyImpl(error) ==
    /\ pendingFlushes' = {}
    /\ buffer' = <<>>
    /\ flushError' = IF error # NoError THEN error ELSE flushError

\* callback(error) of _transform or _flush: the stream is destroyed with the
\* error and the pipeline promise of generateLogs rejects.
CallbackError(error) ==
    /\ DestroyImpl(error)
    /\ PipelineRejects(Logged(errorLog, "stream", 1))
    /\ pc' = "destroyed"
    /\ outcome' = "failed"
    /\ awaited' = {}
    /\ waitResult' = NotWaiting

\* ------------------------------------------------------------ _transform
Transform ==
    /\ pc = "idle"
    /\ written < total
    /\ written' = written + 1
    /\ LET pushed == Append(buffer, written + 1) IN
       IF BatchIsFull(pushed)
       THEN /\ buffer' = <<>>
            /\ \E serializable \in BOOLEAN : ScheduleFlush(pushed, serializable)
            /\ IF SlotAvailable(pendingFlushes')
               THEN /\ pc' = "awaitNone"
                    /\ awaited' = {}
                    /\ waitResult' = NotWaiting
                    /\ observed' = observed
               ELSE /\ pc' = "awaitRace"
                    /\ awaited' = pendingFlushes'
                    /\ waitResult' = Pending
                    /\ observed' = observed \cup pendingFlushes'
       ELSE /\ buffer' = pushed
            /\ UNCHANGED <<tasks, batchIndex, bulkCalls, pendingFlushes, pc,
                           awaited, waitResult, errorLog, observed>>
    /\ UNCHANGED <<config, upstream, separate, program, flushError, metrics,
                   totalInserted, outcome, drainReported, emitted>>

\* continuation of _transform after `await this.waitForAvailableSlot()`.
\* When no wait was needed the continuation is queued behind the .catch
\* handler of a task whose serialization threw inside scheduleFlush.
TransformResume ==
    /\ pc \in {"awaitNone", "awaitRace"}
    /\ pc = "awaitRace" => waitResult.state # "pending"
    /\ pc = "awaitNone" =>
           \A t \in TaskIds : ~(tasks[t].state = "thrown" /\ ~tasks[t].sent)
    /\ IF waitResult.state = "rejected"
       THEN CallbackError(waitResult.error)
       ELSE IF flushError # NoError
       THEN CallbackError(flushError)
       ELSE /\ pc' = "idle"
            /\ awaited' = {}
            /\ waitResult' = NotWaiting
            /\ UNCHANGED <<pendingFlushes, buffer, flushError, outcome,
                           errorLog, program>>
    /\ UNCHANGED <<config, upstream, separate, observed, written, batchIndex,
                   metrics, totalInserted, tasks, bulkCalls, drainReported,
                   emitted>>

\* ---------------------------------------------------------------- _flush
Flush ==
    /\ pc = "idle"
    /\ written = total
    /\ IF Len(buffer) > 0
       THEN /\ buffer' = <<>>
            /\ \E serializable \in BOOLEAN : ScheduleFlush(buffer, serializable)
       ELSE UNCHANGED <<buffer, tasks, batchIndex, bulkCalls, pendingFlushes,
                        errorLog>>
    /\ pc' = "awaitAll"
    /\ awaited' = pendingFlushes'
    /\ observed' = observed \cup pendingFlushes'
    /\ waitResult' = IF pendingFlushes' = {} THEN Fulfilled ELSE Pending
    /\ UNCHANGED <<config, upstream, separate, program, written, flushError,
                   metrics, totalInserted, outcome, drainReported, emitted>>

\* continuation of _flush after `await Promise.all([...this.pendingFlushes])`
FlushResume ==
    /\ pc = "awaitAll"
    /\ waitResult.state # "pending"
    /\ drainReported' = TRUE
    /\ IF waitResult.state = "rejected"
       THEN CallbackError(waitResult.error)
       ELSE IF flushError # NoError
       THEN CallbackError(flushError)
       ELSE /\ pc' = "finished"
            /\ outcome' = "completed"
            /\ awaited' = {}
            /\ waitResult' = NotWaiting
            /\ UNCHANGED <<pendingFlushes, buffer, flushError, errorLog,
                           program>>
    /\ UNCHANGED <<config, upstream, separate, observed, written, batchIndex,
                   metrics, totalInserted, tasks, bulkCalls, emitted>>

\* ------------------------------------------------------------- sendBatch
\* variant: a response with errored items latches a failure like a
\* thrown send
SendResolve_LatchesItemErrors(t, errors, batchDuration) ==
    /\ pc # "exited"
    /\ tasks[t].state = "inflight"
    /\ LET batch == tasks[t].batch
           successfulDocuments == SuccessfulDocuments(batch, errors)
       IN /\ metrics' =
                [batches |-> Batches(metrics.batches, t),
                 totalInserted |-> metrics.totalInserted + successfulDocuments,
                 failedDocuments |->
                     FailedDocuments(metrics.failedDocuments, errors),
                 totalDurationMs |-> metrics.totalDurationMs + batchDuration,
                 maxBatchDurationMs |->
                     Max(metrics.maxBatchDurationMs, batchDuration)]
          /\ errorLog' = Logged(errorLog, "insertion", Len(errors))
          /\ totalInserted' = totalInserted + successfulDocuments
          /\ emitted' = Push(ProgressEvent(batch, successfulDocuments,
                                            totalInserted'))
          /\ tasks' = [tasks EXCEPT ![t].state = "resolved",
                                    ![t].failed = Len(errors)]
    /\ flushError' = IF Len(errors) > 0 THEN t ELSE flushError
    /\ UNCHANGED <<config, upstream, separate, program, observed, written,
                   buffer, pendingFlushes, batchIndex, bulkCalls, pc, awaited,
                   waitResult, outcome, drainReported>>

\* continuation of sendBatch after `await opensearchClient.bulk(...)` returned
\* a response whose errored items are `errors`, batchDuration ms after start
SendResolve(t, errors, batchDuration) ==
    /\ pc # "exited"
    /\ tasks[t].state = "inflight"
    /\ LET batch == tasks[t].batch
           successfulDocuments == SuccessfulDocuments(batch, errors)
       IN /\ metrics' =
                [batches |-> Batches(metrics.batches, t),
                 totalInserted |-> metrics.totalInserted + successfulDocuments,
                 failedDocuments |->
                     FailedDocuments(metrics.failedDocuments, errors),
                 totalDurationMs |-> metrics.totalDurationMs + batchDuration,
                 maxBatchDurationMs |->
                     Max(metrics.maxBatchDurationMs, batchDuration)]
          /\ errorLog' = Logged(errorLog, "insertion", Len(errors))
          /\ totalInserted' = totalInserted + successfulDocuments
          /\ emitted' = Push(ProgressEvent(batch, successfulDocuments,
                                            totalInserted'))
          /\ tasks' = [tasks EXCEPT ![t].state = "resolved",
                                    ![t].failed = Len(errors)]
    /\ UNCHANGED <<config, upstream, separate, program, observed, written,
                   buffer, pendingFlushes, flushError, batchIndex, bulkCalls,
                   pc, awaited, waitResult, outcome, drainReported>>

\* the bulk call threw: the catch block of sendBatch logs and rethrows
SendReject(t) ==
    /\ pc # "exited"
    /\ tasks[t].state = "inflight"
    /\ tasks' = [tasks EXCEPT ![t].state = "thrown"]
    /\ errorLog' = Logged(errorLog, "connection", 1)
    /\ UNCHANGED <<config, upstream, separate, program, observed, written,
                   buffer, pendingFlushes, flushError, batchIndex, metrics,
                   totalInserted, bulkCalls, pc, awaited, waitResult, outcome,
                   drainReported, emitted>>

\* variant: the .catch handler rethrows without latching the error
CatchHandler_NoLatch(t) ==
    /\ pc # "exited"
    /\ tasks[t].state = "thrown"
    /\ tasks' = [tasks EXCEPT ![t].state = "caught"]
    /\ UNCHANGED <<config, upstream, separate, program, observed, written,
                   buffer, pendingFlushes, flushError, batchIndex, metrics,
                   totalInserted, bulkCalls, pc, awaited, waitResult, outcome,
                   drainReported, emitted, errorLog>>

\* scheduleFlush: .catch((error) => { this.flushError = error; throw error; })
CatchHandler(t) ==
    /\ pc # "exited"
    /\ tasks[t].state = "thrown"
    /\ flushError' = t
    /\ tasks' = [tasks EXCEPT ![t].state = "caught"]
    /\ UNCHANGED <<config, upstream, separate, program, observed, written,
                   buffer, pendingFlushes, batchIndex, metrics, totalInserted,
                   bulkCalls, pc, awaited, waitResult, outcome, drainReported,
                   emitted, errorLog>>

\* variant: the slot wait resumes only on the oldest awaited task (FIFO)
SettleWait_Fifo(t, rejects) ==
    IF t \notin awaited \/ waitResult.state # "pending"
    THEN waitResult
    ELSE IF rejects
    THEN Rejected(t)
    ELSE IF pc = "awaitRace"
    THEN (IF \A u \in awaited : t <= u THEN Fulfilled ELSE Pending)
    ELSE IF \A u \in awaited \ {t} : tasks[u].state = "done"
    THEN Fulfilled
    ELSE Pending

\* Settlement of Promise.race (first settlement wins) or Promise.all (first
\* rejection, or the last fulfilment) when the promise of task t settles.
SettleWait(t, rejects) ==
    IF t \notin awaited \/ waitResult.state # "pending"
    THEN waitResult
    ELSE IF rejects
    THEN Rejected(t)
    ELSE IF pc = "awaitRace"
    THEN Fulfilled
    ELSE IF \A u \in awaited \ {t} : tasks[u].state = "done"
    THEN Fulfilled
    ELSE Pending

\* scheduleFlush: .finally(() => { this.pendingFlushes.delete(promise); })
\* after which the task's promise settles.
FinallyHandler(t) ==
    /\ pc # "exited"
    /\ tasks[t].state \in {"resolved", "caught"}
    /\ LET rejects == tasks[t].state = "caught" IN
       /\ pendingFlushes' = pendingFlushes \ {t}
       /\ tasks' = [tasks EXCEPT ![t].state =
                        IF rejects THEN "rejected" ELSE "done"]
       /\ waitResult' = SettleWait(t, rejects)
       /\ observed' = IF rejects THEN observed ELSE observed \ {t}
    /\ UNCHANGED <<config, upstream, separate, program, written, buffer,
                   flushError, batchIndex, metrics, totalInserted, bulkCalls,
                   pc, awaited, outcome, drainReported, emitted, errorLog>>

\* ------------------------------------------------------------- teardown
\* stream.destroy(error) from outside the uploader: the pipeline of
\* generateLogs destroys every stage with the error of the stage that failed,
\* which an upstream stage can do while it still has a record to process.
Destroy(error) ==
    /\ pc \in {"idle", "awaitNone", "awaitRace"}
    /\ written < total
    /\ DestroyImpl(error)
    /\ PipelineRejects(Logged(errorLog, "stream", 1))
    /\ pc' = "destroyed"
    /\ outcome' = "failed"
    /\ awaited' = {}
    /\ waitResult' = NotWaiting
    /\ UNCHANGED <<config, upstream, separate, observed, written, batchIndex,
                   metrics, totalInserted, tasks, bulkCalls, drainReported,
                   emitted>>

\* autoDestroy of the stream after it finished, and the explicit destroy()
\* of generateLogs after the pipeline resolved
AutoDestroy ==
    /\ pc = "finished"
    /\ DestroyImpl(NoError)
    /\ pc' = "closed"
    /\ UNCHANGED <<config, upstream, separate, program, observed, written,
                   batchIndex, metrics, totalInserted, tasks, bulkCalls,
                   awaited, waitResult, outcome, drainReported, emitted,
                   errorLog>>

\* SIGINT / SIGTERM handlers: closeClient() and process.exit(0)
Signal ==
    /\ pc \notin {"exited", "closed"}
    /\ pc' = "exited"
    /\ outcome' = IF outcome = "running" THEN "aborted" ELSE outcome
    /\ UNCHANGED <<config, upstream, separate, program, observed, written,
                   buffer, pendingFlushes, flushError, batchIndex, metrics,
                   totalInserted, tasks, bulkCalls, awaited, waitResult,
                   drainReported, emitted, errorLog>>

\* the fields of the uploader that the upstream stages never touch
uploader == <<written, buffer, pendingFlushes, flushError, batchIndex,
              metrics, totalInserted, tasks, bulkCalls, pc, awaited,
              waitResult, drainReported, emitted, observed>>

\* ---------------------------------------------------------- main program
\* ErrorLogger: this.errors.length, the entries held in memory only
Buffered == TotalLogged(errorLog) - persisted

\* task promises that were rejected with no handler subscribed
Unobserved == {t \in TaskIds : tasks[t].state = "rejected" /\ t \notin observed}

\* generateLogs after `await pipelineAsync(...)` resolved: the stages are
\* destroyed, the error sink is flushed, the result is returned
GenerateLogsReturns ==
    /\ main = "awaitPipeline"
    /\ pc = "closed"
    /\ main' = "returned"
    /\ persisted' = TotalLogged(errorLog)
    /\ UNCHANGED <<config, upstream, separate, uploader, outcome, errorLog>>

\* runIngestion after generateLogs returned: the index is optimized, the
\* summary printed, the error sink flushed; closeClient() is awaited
Summary ==
    /\ main = "returned"
    /\ main' = "closing"
    /\ persisted' = TotalLogged(errorLog)
    /\ UNCHANGED <<config, upstream, separate, uploader, outcome, errorLog>>

\* runIngestion: process.exit(...) once closeClient() has returned
ProcessExit ==
    /\ main = "closing"
    /\ pc # "exited"
    /\ pc' = "exited"
    /\     /\ UNCHANGED <<config, upstream, separate, program, written, buffer,
                   pendingFlushes, flushError, batchIndex, metrics,
                   totalInserted, tasks, bulkCalls, awaited, waitResult,
                   outcome, drainReported, emitted, errorLog, observed>>

\* no continuation of the uploader or of generateLogs is queued: the stream
\* is waiting for a record, for a settlement or for nothing more
Quiescent ==
    /\ pc # "awaitNone"
    /\ pc \in {"awaitRace", "awaitAll"} => waitResult.state = "pending"
    /\ pc \in {"finished", "closed"} => main # "awaitPipeline"

\* process.on("unhandledRejection"): closeClient() and process.exit(1).  The
\* event is emitted once the queued continuations have run; it matters
\* while runIngestion is not itself on its way to process.exit.
UnhandledRejection ==
    /\ pc # "exited"
    /\ main = "awaitPipeline"
    /\ Unobserved # {}
    /\ Quiescent
    /\ main' = "unhandledRejection"
    /\ pc' = "exited"
    /\ outcome' = IF outcome = "running" THEN "crashed" ELSE outcome
    /\ UNCHANGED <<config, upstream, separate, written, buffer,
                   pendingFlushes, flushError, batchIndex, metrics,
                   totalInserted, tasks, bulkCalls, awaited, waitResult,
                   drainReported, emitted, errorLog, observed, persisted>>

\* the store answers the bulk request of some task, or the request fails
\* (with at most one item per document of the request)
BulkResponds ==
    \E t \in TaskIds, errors \in ErrorLists, batchDuration \in 0..MaxDuration :
        /\ Len(errors) <= Len(tasks[t].batch)
        /\ SendResolve(t, errors, batchDuration)

BulkThrows == \E t \in TaskIds : SendReject(t)

\* microtasks of the promise chain built by scheduleFlush
PromiseCatch == \E t \in TaskIds : CatchHandler(t)

PromiseFinally == \E t \in TaskIds : FinallyHandler(t)

Next ==
    \/ Transform
    \/ TransformResume
    \/ Flush
    \/ FlushResume
    \/ BulkResponds
    \/ BulkThrows
    \/ PromiseCatch
    \/ PromiseFinally
    \/ Destroy(UpstreamError)
    \/ AutoDestroy
    \/ GenerateLogsReturns
    \/ Summary
    \/ ProcessExit
    \/ UnhandledRejection
    \/ Signal

Spec == Init /\ [][Next]_vars

\* ---------------------------------------------------------- a fair run
\* The run in which no signal is delivered to the process, the event loop
\* runs every continuation and microtask that is ready, the source delivers
\* every record and the store answers every bulk call.
\* the bulk call of task t settles: it returns a response or throws
Settles(t) ==
    /\ t \in TaskIds
    /\ \/ \E errors \in ErrorLists, batchDuration \in 0..MaxDuration :
              /\ Len(errors) <= Len(tasks[t].batch)
              /\ SendResolve(t, errors, batchDuration)
       \/ SendReject(t)

\* the .catch and .finally handlers of the promise of task t
Microtask(t) == t \in TaskIds /\ (CatchHandler(t) \/ FinallyHandler(t))

FairNext ==
    \/ Transform
    \/ TransformResume
    \/ Flush
    \/ FlushResume
    \/ BulkResponds
    \/ BulkThrows
    \/ PromiseCatch
    \/ PromiseFinally
    \/ Destroy(UpstreamError)
    \/ AutoDestroy
    \/ GenerateLogsReturns
    \/ Summary
    \/ ProcessExit
    \/ UnhandledRejection

Fairness ==
    /\ WF_vars(Transform)
    /\ WF_vars(TransformResume)
    /\ WF_vars(Flush)
    /\ WF_vars(FlushResume)
    /\ \A t \in 1..MaxRecords : WF_vars(Settles(t))
    /\ \A t \in 1..MaxRecords : WF_vars(Microtask(t))

FairSpec == Init /\ [][FairNext]_vars /\ Fairness

\* ====================================================== LogGeneratorStream
DEFAULT_CHUNK_SIZE == 100

Min(a, b) == IF a <= b THEN a ELSE b

\* variant: every chunk has the default size
ChunkSize_Fixed(done) == DEFAULT_CHUNK_SIZE

\* _read: chunkSize = Math.min(DEFAULT_CHUNK_SIZE, this.total - this.generated)
ChunkSize(done) == Min(DEFAULT_CHUNK_SIZE, total - done)

\* the indices first, first + 1, ..., first + n - 1
IndicesFrom(first, n) == [i \in 1..n |-> first + i - 1]

\* _read(), which the Readable calls on demand of the consumer, and not
\* again before a chunk was pushed, nor after the end or a destroy
Read ==
    /\ generatorStream.state = "open"
    /\ ~generatorStream.reading
    /\ generatorStream.endSignals = 0
    /\ generatorStream' =
          IF generatorStream.generated >= total
          THEN [generatorStream EXCEPT !.endSignals = @ + 1]
          ELSE [generatorStream EXCEPT
                   !.reading = TRUE,
                   !.immediate = <<ChunkSize(generatorStream.generated)>>]
    /\ UNCHANGED <<config, separate, program, uploader, outcome, errorLog,
                   metricsCollector>>

\* The callback given to setImmediate.  The loop runs without suspension;
\* the generator function returns for the first k indices of the chunk and,
\* when k is less than the chunk size, throws for the next one: the
\* exception leaves the callback uncaught and ends the process.  A record
\* pushed after the stream was destroyed is dropped.
Immediate ==
    /\ generatorStream.immediate # <<>>
    /\ generatorStream.state # "crashed"
    /\ \E k \in 0..generatorStream.immediate[1] :
          LET chunkSize == generatorStream.immediate[1]
              throws == k < chunkSize
              first == generatorStream.generated
          IN /\ generatorStream' =
                   [generatorStream EXCEPT
                       !.immediate = <<>>,
                       !.calls = @ \o
                           IndicesFrom(first, IF throws THEN k + 1 ELSE k),
                       !.produced =
                           IF generatorStream.state = "destroyed" THEN @
                           ELSE @ \o IndicesFrom(first, k),
                       !.generated = @ + k,
                       !.reading = IF k > 0 THEN FALSE ELSE @,
                       !.state = IF throws THEN "crashed" ELSE @]
             /\ outcome' = IF throws THEN "crashed" ELSE outcome
    /\ UNCHANGED <<config, separate, program, uploader, errorLog,
                   metricsCollector>>

\* The pipeline of generateLogs destroys the source when a later stage
\* failed; the 'error' handler of generatorStream logs a stream error.
SourceDestroy ==
    /\ generatorStream.state = "open"
    /\ generatorStream.endSignals = 0
    /\ generatorStream' = [generatorStream EXCEPT !.state = "destroyed"]
    /\ outcome' = "failed"
    /\ errorLog' = Logged(errorLog, "stream", 1)
    /\ UNCHANGED <<config, separate, program, uploader, metricsCollector>>

SourceInit ==
    /\ options = [batchSize |-> 1, concurrency |-> <<>>]
    /\ total \in 0..MaxTotalLogs
    /\ UploaderConstructed
    /\ SourceConstructed
    /\ CollectorConstructed
    /\ SeparateIdle

SourceNext == Read \/ Immediate \/ SourceDestroy

SourceSpec == SourceInit /\ [][SourceNext]_vars

\* ===================================================== LogMetricsCollector
\* A record as the collector reads it: its metrics.response_time_ms and
\* whether it is a complete LogEntry, lacks `service` (the aggregation
\* throws before the response time is read) or lacks `tags` (it throws
\* after).
Shapes == {"complete", "no_service", "no_tags"}

LogEntries == [responseTime : 1..MaxResponseTime, shape : Shapes]

\* _transform: this.total++
Counted(c) == [c EXCEPT !.total = @ + 1]

\* _transform: the four statements on this.responseTime
Observed(c, responseTime) ==
    [c EXCEPT !.responseTime =
        [values |-> Append(@.values, responseTime),
         total |-> @.total + responseTime,
         min |-> Min(@.min, responseTime),
         max |-> Max(@.max, responseTime)]]

\* variant: the record is pushed twice
Forward_Twice(records, chunk) == Append(Append(records, chunk), chunk)

\* _transform: this.push(chunk)
Forward(records, chunk) == Append(records, chunk)

\* _transform(chunk, _encoding, callback).  When a statement throws, the
\* catch block calls callback(error): the stream is destroyed, its 'error'
\* handler in generateLogs logs a stream error and the pipeline fails.
CollectorTransform(chunk) ==
    /\ metricsCollector.state = "open"
    /\ Len(metricsCollector.received) < MaxRecords
    /\ LET aggregated ==
              IF chunk.shape = "no_service"
              THEN Counted(metricsCollector)
              ELSE Observed(Counted(metricsCollector), chunk.responseTime)
       IN IF chunk.shape = "complete"
          THEN /\ metricsCollector' =
                     [aggregated EXCEPT
                         !.received = Append(@, chunk),
                         !.forwarded = Forward(@, chunk)]
               /\                /\ UNCHANGED <<outcome, errorLog>>
          ELSE /\ metricsCollector' =
                     [aggregated EXCEPT
                         !.received = Append(@, chunk),
                         !.state = "errored"]
               /\ outcome' = "failed"
               /\ errorLog' = Logged(errorLog, "stream", 1)
    /\ UNCHANGED <<config, separate, program, uploader, generatorStream>>

\* variant: the average is truncated to two decimals
ToFixed2_Truncates(sum, count) == (100 * sum) \div count

\* parseFloat((sum / count).toFixed(2)), in hundredths: the nearest
\* multiple of 0.01
ToFixed2(sum, count) == (200 * sum + count) \div (2 * count)

\* getSnapshot(): totalGenerated and responseTime.min / max / avg, the
\* average in hundredths
getSnapshot ==
    [totalGenerated |-> metricsCollector.total,
     responseTime |->
        [min |-> IF metricsCollector.responseTime.min = POSITIVE_INFINITY
                 THEN 0
                 ELSE metricsCollector.responseTime.min,
         max |-> IF metricsCollector.responseTime.max = NEGATIVE_INFINITY
                 THEN 0
                 ELSE metricsCollector.responseTime.max,
         avg |-> IF metricsCollector.total > 0
                 THEN ToFixed2(metricsCollector.responseTime.total,
                               metricsCollector.total)
                 ELSE 0]]

CollectorInit ==
    /\ options = [batchSize |-> 1, concurrency |-> <<>>]
    /\ total = 0
    /\ UploaderConstructed
    /\ SourceConstructed
    /\ CollectorConstructed
    /\ SeparateIdle

CollectorNext == \E chunk \in LogEntries : CollectorTransform(chunk)

CollectorSpec == CollectorInit /\ [][CollectorNext]_vars

\* ==================================================== serializeNdjsonBatch
\* A string is a sequence of characters.  LF is the line feed, and the
\* text of a document is made of LF and of one other character.
LF == "LF"

Chars == {"x", LF}

Strings == BoundedSeqs(Chars, MaxMessageLength)

\* A LogEntry as the serializer sees it: the text of its `message`, and
\* whether the object holds a value JSON.stringify throws on (a circular
\* reference, a BigInt).
Documents == [message : Strings, circular : BOOLEAN]

IndexNames == Strings \ {<<>>}

\* the state of everything but ndjson
pipeline == <<config, upstream, program, uploader, outcome, errorLog>>

\* variant: the characters of a string are written as they are
Escape_Raw(string) == string

\* JSON.stringify of the characters of a string: a line feed is written as
\* a backslash followed by n
RECURSIVE Escape(_)
Escape(string) ==
    IF string = <<>> THEN <<>>
    ELSE (IF Head(string) = LF THEN <<"\\", "n">> ELSE <<Head(string)>>)
            \o Escape(Tail(string))

\* JSON.stringify(string)
Quoted(string) == <<"\"">> \o Escape(string) \o <<"\"">>

\* JSON.stringify({ index: { _index: this.options.indexName } })
ActionLine(indexName) ==
    <<"{", "\"", "index", "\"", ":", "{", "\"", "_index", "\"", ":">>
        \o Quoted(indexName) \o <<"}", "}">>

\* JSON.stringify(doc)
Stringify(doc) ==
    <<"{", "\"", "message", "\"", ":">> \o Quoted(doc.message) \o <<"}">>

\* the array `lines` after the loop over the batch
RECURSIVE Lines(_, _)
Lines(indexName, batch) ==
    IF batch = <<>> THEN <<>>
    ELSE <<ActionLine(indexName), Stringify(Head(batch))>>
            \o Lines(indexName, Tail(batch))

\* lines.join(separator)
RECURSIVE Join(_, _)
Join(lines, separator) ==
    IF lines = <<>> THEN <<>>
    ELSE IF Len(lines) = 1 THEN Head(lines)
    ELSE Head(lines) \o <<separator>> \o Join(Tail(lines), separator)

\* return lines.join("\n") + "\n"
serializeNdjsonBatch(indexName, batch) ==
    Join(Lines(indexName, batch), LF) \o <<LF>>

\* One call of serializeNdjsonBatch; JSON.stringify(doc) throws on a
\* document it cannot encode and the exception leaves the method.
Serialize ==
    /\ ndjson.result = "none"
    /\ ndjson' =
          IF \E i \in 1..Len(ndjson.batch) : ndjson.batch[i].circular
          THEN [ndjson EXCEPT !.result = "threw"]
          ELSE [ndjson EXCEPT
                   !.result = "returned",
                   !.body = serializeNdjsonBatch(ndjson.indexName,
                                                 ndjson.batch)]
    /\     /\ UNCHANGED <<pipeline, progressTracker, correlation, errorLogger>>

\* sendBatch is the only caller, with the non-empty batch of scheduleFlush
SerializeInit ==
    /\ options = [batchSize |-> 1, concurrency |-> <<>>]
    /\ total = 0
    /\ UploaderConstructed
    /\ SourceConstructed
    /\ CollectorConstructed
    /\ \E indexName \in IndexNames,
          batch \in BoundedSeqs(Documents, MaxBatchSize) \ {<<>>} :
            ndjson = [NoCall EXCEPT !.indexName = indexName, !.batch = batch]
    /\ TrackerConstructed
    /\ correlation = NoResponse
    /\ LoggerConstructed

SerializeNext == Serialize

SerializeSpec == SerializeInit /\ [][SerializeNext]_vars

\* ========================================================= ProgressTracker
THROTTLE_MS == 2000

\* the milliseconds that pass between the arrivals of two events
Delays == {0, 1, THROTTLE_MS - 1, THROTTLE_MS, THROTTLE_MS + 1}

\* the cumulative counts that events carry
Totals == 1..2

\* variant: a line is written as soon as the clock has moved
ShouldReport_AnyProgress(now, lastUpdate) == now - lastUpdate > 0

\* _transform: if (now - this.lastUpdate > 2000)
ShouldReport(now, lastUpdate) == now - lastUpdate > THROTTLE_MS

\* _transform(chunk, encoding, callback), called `delay` ms after the
\* previous call (or after construction): the status line is written
\* with console.log and callback() is invoked without data
TrackerTransform(chunk, delay) ==
    /\ progressTracker.consumed < MaxEvents
    /\ LET now == progressTracker.clock + delay IN
       progressTracker' =
          IF ShouldReport(now, progressTracker.lastUpdate)
          THEN [progressTracker EXCEPT
                   !.clock = now,
                   !.consumed = @ + 1,
                   !.lines = Append(@, [at |-> now, total |-> chunk.total]),
                   !.lastUpdate = now]
          ELSE [progressTracker EXCEPT !.clock = now, !.consumed = @ + 1]
    /\     /\ UNCHANGED <<pipeline, ndjson, correlation, errorLogger>>

TrackerInit ==
    /\ options = [batchSize |-> 1, concurrency |-> <<>>]
    /\ total = 0
    /\ UploaderConstructed
    /\ SourceConstructed
    /\ CollectorConstructed
    /\ SeparateIdle

TrackerNext ==
    \E chunk \in [inserted : {1}, total : Totals], delay \in Delays :
        TrackerTransform(chunk, delay)

TrackerSpec == TrackerInit /\ [][TrackerNext]_vars

\* --------------------------------------- sendBatch: reading the response
\* items.findIndex((item) => item.index?.error &&
\*                 item.index.error.type === errorItem.index.error.type),
\* counted from 1; 0 when no item matches
FindIndex(items, type) ==
    LET matching == {i \in 1..Len(items) : items[i] # "ok" /\ items[i] = type}
    IN IF matching = {} THEN 0
       ELSE CHOOSE i \in matching : \A j \in matching : i <= j

\* docIndex = itemIndex >= 0 ? itemIndex : idx
DocIndex(items, errorItem, idx) ==
    LET itemIndex == FindIndex(items, errorItem)
    IN IF itemIndex >= 1 THEN itemIndex ELSE idx

\* failedDoc = docIndex < batch.length ? batch[docIndex] : null
FailedDoc(batch, docIndex) ==
    IF docIndex <= Len(batch) THEN <<batch[docIndex]>> ELSE <<>>

\* errors.forEach((errorItem, idx) => { ... logInsertionError(...) })
InsertionEntries(batch, response) ==
    LET errors == ErrorItems(response)
    IN [idx \in 1..Len(errors) |->
           [document |->
                FailedDoc(batch, DocIndex(response.items, errors[idx], idx)),
            type |-> errors[idx]]]

\* sendBatch after `await opensearchClient.bulk(...)`: the errors are
\* extracted, the counts computed and the insertion entries logged
Correlate ==
    /\ correlation.result = "none"
    /\ LET batch == correlation.batch
           errors == ErrorItems(correlation.response)
       IN correlation' =
             [correlation EXCEPT
                 !.result = "counted",
                 !.successfulDocuments = SuccessfulDocuments(batch, errors),
                 !.failedDocuments = FailedDocuments(0, errors),
                 !.entries = InsertionEntries(batch, correlation.response)]
    /\     /\ UNCHANGED <<pipeline, ndjson, progressTracker, errorLogger>>

\* a batch of consecutive records and any response of the store
CorrelateInit ==
    /\ options = [batchSize |-> 1, concurrency |-> <<>>]
    /\ total = 0
    /\ UploaderConstructed
    /\ SourceConstructed
    /\ CollectorConstructed
    /\ ndjson = NoCall
    /\ TrackerConstructed
    /\ LoggerConstructed
    /\ \E n \in 1..MaxResponseItems, first \in 1..2,
          response \in [errors : BOOLEAN,
                        items : BoundedSeqs(ItemKinds, MaxResponseItems)] :
            correlation = [NoResponse EXCEPT
                              !.batch = [i \in 1..n |-> first + i - 1],
                              !.response = response]

CorrelateNext == Correlate

CorrelateSpec == CorrelateInit /\ [][CorrelateNext]_vars

\* ------------------------------------------------------------ ErrorLogger
\* private readonly maxErrorsInMemory: number = 1000
maxErrorsInMemory == 1000

\* What the file operations of flush() can do: "written" when
\* fs.writeFileSync returns; "refused" when reading or opening the file
\* throws and the file is left as it was; "truncated" when fs.writeFileSync
\* throws after it opened the file for writing, which empties it, so that
\* the file holds an incomplete JSON document.
WriteOutcomes == {"written", "refused", "truncated"}

\* flush(): nothing to do for an empty buffer; JSON.parse of a file that is
\* not a JSON document throws; otherwise the file is rewritten with its
\* entries followed by the buffer, and the buffer is emptied once the write
\* returned.  The catch block reports the failure and changes nothing.
FlushImpl(logger, write) ==
    IF Len(logger.errors) = 0 THEN logger
    ELSE IF logger.corrupt THEN logger
    ELSE IF write = "written"
    THEN [logger EXCEPT !.file = logger.file \o logger.errors,
                        !.errors = <<>>,
                        !.durable = logger.logged]
    ELSE IF write = "truncated"
    THEN [logger EXCEPT !.file = <<>>, !.corrupt = TRUE]
    ELSE logger

\* log(entry): this.errors.push(entry), then flush() when the buffer has
\* reached maxErrorsInMemory
LogImpl(logger, write) ==
    LET pushed == [logger EXCEPT !.errors = Append(@, logger.logged + 1),
                                 !.logged = @ + 1]
    IN IF Len(pushed.errors) >= maxErrorsInMemory
       THEN FlushImpl(pushed, write)
       ELSE pushed

\* a call of logInsertionError, logStreamError, logConnectionError or
\* logSerializationError
LoggerLog ==
    /\ errorLogger.calls < MaxCalls
    /\ \E write \in WriteOutcomes :
          errorLogger' = [LogImpl(errorLogger, write) EXCEPT !.calls = @ + 1]
    /\     /\ UNCHANGED <<pipeline, ndjson, progressTracker, correlation>>

\* a call of flush()
LoggerFlush ==
    /\ errorLogger.calls < MaxCalls
    /\ \E write \in WriteOutcomes :
          errorLogger' = [FlushImpl(errorLogger, write) EXCEPT !.calls = @ + 1]
    /\     /\ UNCHANGED <<pipeline, ndjson, progressTracker, correlation>>

\* a new logger, or one that has logged maxErrorsInMemory - 2 entries and
\* was never flushed
LoggerInit ==
    /\ options = [batchSize |-> 1, concurrency |-> <<>>]
    /\ total = 0
    /\ UploaderConstructed
    /\ SourceConstructed
    /\ CollectorConstructed
    /\ ndjson = NoCall
    /\ TrackerConstructed
    /\ correlation = NoResponse
    /\ \E n \in {0, maxErrorsInMemory - 2} :
          errorLogger = [errors |-> [i \in 1..n |-> i], file |-> <<>>,
                         corrupt |-> FALSE, logged |-> n, durable |-> 0,
                         calls |-> 0]

LoggerNext == LoggerLog \/ LoggerFlush

LoggerSpec == LoggerInit /\ [][LoggerNext]_vars

\* ======================================================== checked claims
\* helpers of the properties below
RECURSIVE Flatten(_)
Flatten(batches) ==
    IF batches = <<>> THEN <<>>
    ELSE Head(batches) \o Flatten(Tail(batches))

RECURSIVE Sum(_, _)
Sum(f, S) ==
    IF S = {} THEN 0
    ELSE LET x == CHOOSE y \in S : TRUE IN f[x] + Sum(f, S \ {x})

Submitted == [i \in 1..written |-> i]

Dispatched == Flatten(bulkCalls)

Range(seq) == {seq[i] : i \in 1..Len(seq)}

Terminal == pc \in {"finished", "closed", "destroyed", "exited"}

\* C1: when a run completes without a latched failure, the batches handed
\* to the bulk call, concatenated in call order, are exactly the submitted
\* records in submission order: none dropped, none duplicated.
C1_DispatchIsSubmission ==
    (outcome = "completed" /\ flushError = NoError)
        => /\ written = total
           /\ Dispatched = Submitted

C1_Witness ==
    /\ outcome = "completed"
    /\ flushError = NoError
    /\ total = 3
    /\ options.batchSize = 2
    /\ concurrency = 2
    /\ bulkCalls = <<<<1, 2>>, <<3>>>>

\* C2: every record accepted into the buffer is eventually dispatched in
\* exactly one batch, also when the stream is torn down or a failure is
\* latched while records are buffered.  Stated on the states in which the
\* uploader has stopped for good, for runs in which no batch failed to
\* serialize: every accepted record has been handed to the bulk call once.
C2_AcceptedIsDispatchedAtEnd ==
    (Terminal /\ \A t \in TaskIds : tasks[t].sent)
        => /\ Range(Dispatched) = 1..written
           /\ Len(Dispatched) = written

ConfiguredLimit ==
    IF options.concurrency = <<>> THEN 1
    ELSE IF options.concurrency[1] < 1 THEN 1
    ELSE options.concurrency[1]

\* C3: the number of outstanding upload tasks never exceeds
\* max(1, configured concurrency); an absent concurrency or one below 1
\* behaves as 1.
C3_OutstandingBounded ==
    /\ Cardinality(pendingFlushes) <= ConfiguredLimit
    /\ Cardinality(Unsettled) <= ConfiguredLimit

C3_Witness ==
    /\ pc = "awaitAll"
    /\ options.concurrency = <<2>>
    /\ Cardinality(pendingFlushes) = 2
    /\ \A t \in pendingFlushes : tasks[t].state = "inflight"
    /\ Len(tasks[Len(tasks)].batch) < options.batchSize

PromiseSettles(t) ==
    /\ tasks[t].state \in {"resolved", "caught"}
    /\ tasks'[t].state \in {"done", "rejected"}

\* C4: while the set of outstanding tasks is full no record is accepted
\* (_transform is not invoked), and the suspended _transform is released by
\* the first settlement of any one awaited task, whichever task that is.
C4_FullBlocksUntilAnySettles ==
    [][/\ Cardinality(pendingFlushes) >= ConfiguredLimit => written' = written
       /\ \A t \in awaited :
            (pc = "awaitRace" /\ waitResult.state = "pending" /\ PromiseSettles(t))
                => /\ waitResult'.state # "pending"
                   /\ tasks'[t].state = "done" => waitResult' = Fulfilled]_vars

C4_Witness ==
    /\ pc = "awaitRace"
    /\ waitResult = Fulfilled
    /\ written < total
    /\ \E t, u \in awaited :
          /\ u < t
          /\ tasks[t].state = "done"
          /\ tasks[u].state = "inflight"

\* C5: the callback of _flush is not invoked, with or without an error,
\* while a dispatched task is unsettled, and once it has been invoked no
\* BulkMetrics counter changes.
C5_DrainWaitsForEveryTask ==
    /\ [](drainReported => Unsettled = {})
    /\ [][drainReported => metrics' = metrics]_vars

CeilDiv(n, d) == (n + d - 1) \div d

\* C6: draining a fully accepted stream of N records whose sends all succeed
\* makes exactly ceil(N / batchSize) bulk calls, metrics.batches equals that
\* number, and no empty batch is ever handed to the bulk call.
C6_BatchCount ==
    /\ \A i \in 1..Len(bulkCalls) : bulkCalls[i] # <<>>
    /\ outcome = "completed" =>
          /\ Len(bulkCalls) = CeilDiv(total, options.batchSize)
          /\ metrics.batches = CeilDiv(total, options.batchSize)

C6_Witness ==
    /\ outcome = "completed"
    /\ total = 3
    /\ options.batchSize = 2
    /\ metrics.batches = 2

Credited == {t \in TaskIds : tasks[t].state \in {"resolved", "done"}}

BatchLen == [t \in TaskIds |-> Len(tasks[t].batch)]

\* C7: for every batch the successes credited to totalInserted plus the
\* failures credited to failedDocuments equal the size of the batch,
\* whatever the response carries: after each credited batch the two
\* counters together have grown by exactly that batch's size.
C7_CreditEqualsBatchSize ==
    metrics.totalInserted + metrics.failedDocuments = Sum(BatchLen, Credited)

C7_Witness ==
    /\ Cardinality(Credited) = 2
    /\ metrics.failedDocuments = 2
    /\ metrics.totalInserted = 1
    /\ \A t \in Credited : tasks[t].state = "done"

\* C8: metrics.totalInserted + metrics.failedDocuments never exceeds the
\* number of records in the batches dispatched so far, under any order of
\* settlements and also when sends throw.
C8_CreditAtMostDispatched ==
    metrics.totalInserted + metrics.failedDocuments <= Len(Dispatched)

C8_Witness ==
    /\ \E t, u \in TaskIds :
          /\ t < u
          /\ tasks[t].sent
          /\ tasks[t].state = "rejected"
          /\ tasks[u].state = "done"
    /\ metrics.totalInserted + metrics.failedDocuments < Len(Dispatched)
    /\ metrics.failedDocuments > 0

\* C9: once flushError is set, a later _transform returns the error without
\* appending its record to the buffer and without dispatching a batch.
C9_SubmitAfterLatchIsNoOp ==
    [][(flushError # NoError /\ written' # written)
          => /\ buffer' = buffer
             /\ bulkCalls' = bulkCalls
             /\ outcome' = "failed"]_vars

Threw == {t \in TaskIds : tasks[t].state \in {"thrown", "caught", "rejected"}}

\* C10: if the send of any task throws, the failure stays latched and the
\* run never completes as successful, whichever task threw and whenever it
\* settled relative to the others.
C10_ThrowFailsRun ==
    /\ (\E t \in TaskIds : tasks[t].state \in {"caught", "rejected"})
          => flushError # NoError
    /\ Threw # {} => outcome # "completed"

C10_Witness ==
    /\ outcome = "failed"
    /\ drainReported
    /\ \E t, u \in TaskIds :
          /\ t < u
          /\ tasks[t].state = "rejected"
          /\ tasks[u].state = "done"
          /\ u \notin Threw

SendThrew == {t \in Threw : tasks[t].sent}

\* C11: when the send of a task throws while other tasks are dispatched,
\* the pipeline reports its failed completion (the callback of _transform or
\* _flush is invoked with the exception) only after every task dispatched
\* so far, other than those that threw, has settled with its result
\* added to the metrics.
C11_FailureReportedAfterDispatchedSettle ==
    [][(outcome = "running" /\ outcome' = "failed" /\ flushError' \in SendThrew)
          => \A t \in TaskIds \ Threw :
                tasks[t].sent => tasks[t].state = "done"]_vars

InFlight == {t \in TaskIds : tasks[t].state = "inflight"}

\* C12: a batch whose bulk call throws credits nothing: batches counts
\* only the batches that neither threw nor are still in flight, and
\* totalInserted + failedDocuments is the size of exactly those batches; no
\* ProgressEvent exists for it; one connection entry is logged for each
\* send that threw; and its exception is the failure of the run: it is
\* latched once caught, the run never completes as successful, and the
\* error the uploader reports is that of a task that threw.
C12_SendThrowCreditsNothing ==
    /\ errorLog["connection"] = Cardinality(SendThrew)
    /\ metrics.batches = Len(tasks) - Cardinality(Threw) - Cardinality(InFlight)
    /\ metrics.totalInserted + metrics.failedDocuments =
          Sum(BatchLen, TaskIds \ (Threw \cup InFlight))
    /\ Len(emitted) <= Len(tasks) - Cardinality(Threw) - Cardinality(InFlight)
    /\ SendThrew # {} => outcome # "completed"
    /\ \A t \in SendThrew :
          tasks[t].state \in {"caught", "rejected"} => flushError # NoError
    /\ (outcome = "failed" /\ flushError \in TaskIds) => flushError \in Threw

C12_Witness ==
    /\ outcome = "failed"
    /\ errorLog["connection"] = 1
    /\ metrics.batches = 1
    /\ Len(emitted) = 1
    /\ \E t \in TaskIds :
          /\ tasks[t].sent
          /\ tasks[t].state = "rejected"
          /\ flushError = t

\* C13: errored items of a response never latch a failure: they are
\* counted in failedDocuments, with one insertion entry logged for each;
\* the latch only ever holds a task that threw or the upstream error, and a
\* run fails only for one of those; a run that completes has dispatched
\* every record, whatever number of documents the store rejected.
C13_ItemErrorsDoNotFail ==
    /\ errorLog["insertion"] = metrics.failedDocuments
    /\ flushError \in TaskIds => flushError \in Threw
    /\ outcome = "failed" => (Threw # {} \/ flushError = UpstreamError)
    /\ outcome = "completed" => (Threw = {} /\ Len(Dispatched) = total)

C13_Witness ==
    /\ outcome = "completed"
    /\ flushError = NoError
    /\ Len(bulkCalls) = 3
    /\ tasks[1].failed = Len(tasks[1].batch)
    /\ metrics.failedDocuments = 1
    /\ errorLog["insertion"] = 1
    /\ metrics.totalInserted = 2

\* C14: in every reachable state the number of ProgressEvents emitted
\* equals metrics.batches, one event for each batch whose send settled with
\* a response.
C14_OneEventPerBatch == Len(emitted) = metrics.batches

InsertedOf == [t \in TaskIds |-> Len(tasks[t].batch) - tasks[t].failed]

FailedOf == [t \in TaskIds |-> tasks[t].failed]

EventInserted == [i \in 1..Len(emitted) |-> emitted[i].inserted]

\* C15: each event carries the number of records of its batch that were
\* inserted and the cumulative count at emission: totals are non-decreasing
\* in emission order, each total is the sum of inserted over the events
\* emitted so far, and the total of the last event equals
\* metrics.totalInserted.
C15_EventTotals ==
    /\ \A i \in 1..Len(emitted) :
          /\ \E t \in Credited : emitted[i].inserted = InsertedOf[t]
          /\ emitted[i].total = Sum(EventInserted, 1..i)
          /\ i > 1 => emitted[i - 1].total <= emitted[i].total
    /\ Len(emitted) > 0 =>
          emitted[Len(emitted)].total = metrics.totalInserted

\* C16: the counters are the same function of the settled batches and of
\* their responses whatever the order of settlement: batches is the number
\* of batches answered, totalInserted and failedDocuments are the sums of
\* what each answered batch contributed, and no state exposes a partial
\* update of one task.
C16_CountersIndependentOfOrder ==
    /\ metrics.batches = Cardinality(Credited)
    /\ metrics.totalInserted = Sum(InsertedOf, Credited)
    /\ metrics.failedDocuments = Sum(FailedOf, Credited)
    /\ totalInserted = metrics.totalInserted

C16_Witness ==
    /\ outcome = "completed"
    /\ Len(tasks) = 2
    /\ Len(tasks[1].batch) = 2
    /\ tasks[1].failed = 0
    /\ tasks[2].failed = 1
    /\ emitted = <<[inserted |-> 0, total |-> 0], [inserted |-> 2, total |-> 2]>>

\* C17: for every target count the generator function is called with the
\* indices 0, 1, 2, ... in that order, each once and never beyond
\* total - 1; the records delivered are the results of those calls in that
\* order; the end of the sequence is signalled at most once and only after
\* all `total` records were delivered.
C17_SourceProducesInOrder ==
    LET g == generatorStream IN
    /\ g.calls = IndicesFrom(0, Len(g.calls))
    /\ Len(g.calls) <= total
    /\ g.produced = IndicesFrom(0, Len(g.produced))
    /\ Len(g.produced) <= Len(g.calls)
    /\ g.state = "open" =>
          (g.produced = g.calls /\ g.generated = Len(g.calls))
    /\ g.endSignals <= 1
    /\ g.endSignals = 1 => g.produced = IndicesFrom(0, total)

C17_Witness ==
    /\ total = 201
    /\ generatorStream.endSignals = 1
    /\ generatorStream.state = "open"
    /\ generatorStream.produced = IndicesFrom(0, 201)
    /\ generatorStream.calls = generatorStream.produced

\* C18: if the generator function throws for some index, a stream error is
\* reported to the error sink, no record is delivered for that index or a
\* later one, and the pipeline fails.
C18_GenThrowIsReported ==
    generatorStream.state = "crashed"
        => /\ errorLog["stream"] >= 1
           /\ outcome = "failed"
           /\ Len(generatorStream.produced) < Len(generatorStream.calls)

\* C19: every record the collector receives is forwarded exactly once,
\* unchanged and in arrival order, and totalGenerated of the snapshot
\* equals the number of records forwarded so far.
C19_PassThrough ==
    /\ metricsCollector.forwarded = metricsCollector.received
    /\ getSnapshot.totalGenerated = Len(metricsCollector.forwarded)

IsPrefix(a, b) == Len(a) <= Len(b) /\ a = SubSeq(b, 1, Len(a))

\* C19 (amended): while no aggregation has thrown, the forwarded records
\* are the received records, unchanged and in order, and totalGenerated is
\* their number; a record whose aggregation throws is not forwarded, is the
\* last one received, and has already been counted in totalGenerated.
C19_PassThroughUnlessThrown ==
    LET forwarded == metricsCollector.forwarded
        received == metricsCollector.received
    IN /\ IsPrefix(forwarded, received)
       /\ metricsCollector.state = "open"
             => /\ forwarded = received
                /\ getSnapshot.totalGenerated = Len(forwarded)
       /\ metricsCollector.state = "errored"
             => /\ Len(received) = Len(forwarded) + 1
                /\ received[Len(received)].shape # "complete"
                /\ getSnapshot.totalGenerated = Len(forwarded) + 1

C19_Witness ==
    /\ metricsCollector.state = "errored"
    /\ Len(metricsCollector.forwarded) = 2
    /\ metricsCollector.forwarded[1].responseTime = 3
    /\ metricsCollector.forwarded[2].responseTime = 1
    /\ getSnapshot.totalGenerated = 3

RECURSIVE SeqSum(_)
SeqSum(seq) == IF seq = <<>> THEN 0 ELSE Head(seq) + SeqSum(Tail(seq))

Abs(n) == IF n < 0 THEN -n ELSE n

\* C20: after a non-empty sequence of records the snapshot's
\* responseTime.min and .max are the minimum and the maximum of the observed
\* response times and .avg is their sum divided by their number; with no
\* record observed all three are 0.  Stated for sequences of complete
\* records; avg is held in hundredths.
C20_ResponseTimeSummary ==
    LET values == metricsCollector.responseTime.values
        snapshot == getSnapshot.responseTime
    IN metricsCollector.state = "open" =>
          IF values = <<>>
          THEN snapshot.min = 0 /\ snapshot.max = 0 /\ snapshot.avg = 0
          ELSE /\ snapshot.min \in Range(values)
               /\ snapshot.max \in Range(values)
               /\ \A v \in Range(values) :
                     snapshot.min <= v /\ v <= snapshot.max
               /\ snapshot.avg * Len(values) = 100 * SeqSum(values)

\* C20 (amended): min and max as stated; avg is the sum of the observed
\* response times divided by totalGenerated and rounded to two decimals,
\* the multiple of 0.01 nearest to the quotient; all three are 0 when no
\* response time was observed.
C20_ResponseTimeSummaryRounded ==
    LET values == metricsCollector.responseTime.values
        snapshot == getSnapshot.responseTime
        count == getSnapshot.totalGenerated
    IN IF values = <<>>
       THEN snapshot.min = 0 /\ snapshot.max = 0 /\ snapshot.avg = 0
       ELSE /\ snapshot.min \in Range(values)
            /\ snapshot.max \in Range(values)
            /\ \A v \in Range(values) : snapshot.min <= v /\ v <= snapshot.max
            /\ 2 * Abs(100 * SeqSum(values) - snapshot.avg * count) <= count

C20_Witness ==
    /\ metricsCollector.responseTime.values = <<1, 3, 2>>
    /\ metricsCollector.state = "open"
    /\ getSnapshot.responseTime = [min |-> 1, max |-> 3, avg |-> 200]

\* string.split(separator): the pieces between the separators
RECURSIVE Split(_, _)
Split(string, separator) ==
    IF \A i \in 1..Len(string) : string[i] # separator
    THEN <<string>>
    ELSE LET i == CHOOSE j \in 1..Len(string) :
                    /\ string[j] = separator
                    /\ \A h \in 1..(j - 1) : string[h] # separator
         IN <<SubSeq(string, 1, i - 1)>>
                \o Split(SubSeq(string, i + 1, Len(string)), separator)

\* C21: the serialized form of a batch of k records is 2k lines, each
\* ended by a line feed and holding none inside: the line 2i (from 0) is
\* the action descriptor naming the configured index and the line 2i + 1
\* is the encoded i-th record of the batch; nothing follows the last line
\* feed.
C21_NdjsonLayout ==
    ndjson.result = "returned" =>
        LET k == Len(ndjson.batch)
            pieces == Split(ndjson.body, LF)
        IN /\ Len(pieces) = 2 * k + 1
           /\ pieces[2 * k + 1] = <<>>
           /\ \A i \in 1..k :
                 /\ pieces[2 * i - 1] = ActionLine(ndjson.indexName)
                 /\ pieces[2 * i] = Stringify(ndjson.batch[i])

C21_Witness ==
    /\ ndjson.result = "returned"
    /\ Len(ndjson.batch) = 2
    /\ ndjson.batch[1].message = <<LF>>
    /\ ndjson.batch[2].message = <<"x">>
    /\ Len(Split(ndjson.body, LF)) = 5

\* C22: whenever the process exits at the end of a run, by the exit of
\* runIngestion after completion or after a fatal error, or by the exit of
\* the unhandledRejection handler, no logged entry is held in memory only.
C22_FlushedAtExit ==
    (pc = "exited" /\ main \in {"closing", "unhandledRejection"})
        => Buffered = 0

C24_BufferBelowBatchSize ==
    /\ Len(buffer) < options.batchSize
    /\ outcome = "completed" =>
           /\ buffer = <<>>
           /\ pendingFlushes = {}
           /\ Unsettled = {}

C24_Witness ==
    /\ outcome = "completed"
    /\ options.batchSize = 2
    /\ total = 3
    /\ Len(tasks) = 2
    /\ Len(tasks[2].batch) = 1

NotSerialized == {t \in TaskIds : ~tasks[t].sent}

\* C25: when the serialization of a batch throws, the bulk call is never
\* made for that batch and none of its records is dispatched by another
\* task; exactly one serialization entry is logged for it, naming the first
\* record of the batch; and the batch is never credited: the step that
\* creates the task and every later step of the task leave the metrics, the
\* bulk calls and the progress events as they were.
C25_SerializationFailure ==
    /\ [](/\ errorLog["serialization"] = Cardinality(NotSerialized)
          /\ Len(bulkCalls) = Len(tasks) - Cardinality(NotSerialized)
          /\ metrics.batches = Cardinality(Credited \ NotSerialized)
          /\ \A t \in TaskIds :
                IF tasks[t].sent
                THEN tasks[t].document = <<>>
                ELSE /\ tasks[t].document = <<Head(tasks[t].batch)>>
                     /\ tasks[t].state \in {"thrown", "caught", "rejected"}
                     /\ \A i \in DOMAIN bulkCalls :
                           Range(bulkCalls[i]) \cap Range(tasks[t].batch) = {}
                     /\ \A u \in TaskIds \ {t} :
                           Range(tasks[u].batch) \cap Range(tasks[t].batch)
                               = {})
    /\ [][(\E t \in DOMAIN tasks' :
              /\ ~tasks'[t].sent
              /\ t \in DOMAIN tasks => tasks'[t] # tasks[t])
            => /\ metrics' = metrics
               /\ totalInserted' = totalInserted
               /\ bulkCalls' = bulkCalls
               /\ emitted' = emitted]_vars

C25_Witness ==
    /\ outcome = "failed"
    /\ errorLog["serialization"] = 1
    /\ \E t \in NotSerialized :
          /\ Len(tasks[t].batch) = 2
          /\ tasks[t].state = "rejected"
          /\ flushError = t

\* the positions of the items of a response that carry an error, in order
ErroredPositions(items) ==
    SelectSeq([i \in 1..Len(items) |-> i], LAMBDA i : items[i] # "ok")

\* the response has one item for each record of the batch
OneItemPerRecord ==
    Len(correlation.response.items) = Len(correlation.batch)

\* C26: for every bulk response with one item per record, the failures
\* counted for the batch are the number of items that carry an error and
\* the successes credited are the batch size minus that number, whatever
\* the value of the response's `errors` flag.
C26_FailuresCountedByItems ==
    (correlation.result = "counted" /\ OneItemPerRecord) =>
        LET failed == Len(ErroredPositions(correlation.response.items))
        IN /\ correlation.failedDocuments = failed
           /\ correlation.successfulDocuments = Len(correlation.batch) - failed

\* C27: for every bulk response with one item per record, one insertion
\* entry is logged for each item that carries an error, naming the record
\* at the position of the first item with the same error type; when the
\* error types of the response are pairwise distinct that is the record at
\* the position of the item itself.
C27_AttributionByFirstOfType ==
    (correlation.result = "counted" /\ OneItemPerRecord) =>
        LET items == correlation.response.items
            batch == correlation.batch
            positions == ErroredPositions(items)
            distinct == \A k, l \in 1..Len(positions) :
                            k # l => items[positions[k]] # items[positions[l]]
        IN /\ Len(correlation.entries) = Len(positions)
           /\ \A k \in 1..Len(positions) :
                 /\ correlation.entries[k].type = items[positions[k]]
                 /\ correlation.entries[k].document =
                       <<batch[FindIndex(items, items[positions[k]])]>>
                 /\ distinct =>
                       correlation.entries[k].document = <<batch[positions[k]]>>

\* the entries numbered from + 1 .. to, in order
Entries(from, to) == [i \in 1..(to - from) |-> from + i]

\* C28: after any sequence of log and flush calls every logged entry is in
\* exactly one place: the file holds, in logging order and once each, the
\* entries logged before the last flush that wrote it, and the buffer holds
\* the entries logged since, in order.
C28_EachEntryInOnePlace ==
    /\ errorLogger.file = Entries(0, errorLogger.durable)
    /\ errorLogger.errors = Entries(errorLogger.durable, errorLogger.logged)

\* C29: no task's promise rejects while neither the Promise.race of the slot
\* wait nor the Promise.all of the drain has subscribed to it: every rejected
\* task promise is observed.
C29_NoUnobservedRejection == Unobserved = {}

\* C30: when every bulk call settles, the pipeline eventually reports a
\* terminal outcome, completed or failed, for every number of records,
\* batchSize >= 1 and concurrency: a _transform suspended for a slot is
\* resumed and _flush returns.
C30_PipelineTerminates == <>(outcome \in {"completed", "failed"})

====
